---------------------------- MODULE Spec2Model ----------------------------
(* A model of OperaExtOptions: SettingStorage (a JSON layer over a web      *)
(* storage object) and OptionsPage (the binder of form controls to          *)
(* settings).  Source: src/src/script/default_settings.js, whose storage    *)
(* part also appears, without the accessor properties, in                   *)
(* src/unnamed/part_000.                                                    *)
EXTENDS Integers, Sequences, FiniteSets, TLC

(***************************************************************************)
(* Bounds of the model.                                                    *)
(***************************************************************************)
\* number values written by callers range over 0..MaxNum
MaxNum == 1
\* at most MaxCalls calls are made to the methods of the instances in one
\* behaviour
MaxCalls == 2

(***************************************************************************)
(* JavaScript values.  Every value is a record of one shape, so that any   *)
(* two values can be compared: t is the type tag, b the boolean, n the     *)
(* number and s the characters of a string.                                *)
(***************************************************************************)
Undefined == [t |-> "undefined", b |-> FALSE, n |-> 0, s |-> <<>>]
Null      == [t |-> "null", b |-> FALSE, n |-> 0, s |-> <<>>]
NaN       == [t |-> "nan", b |-> FALSE, n |-> 0, s |-> <<>>]
Bool(x)   == [t |-> "boolean", b |-> x, n |-> 0, s |-> <<>>]
Num(x)    == [t |-> "number", b |-> FALSE, n |-> x, s |-> <<>>]
Str(x)    == [t |-> "string", b |-> FALSE, n |-> 0, s |-> x]

\* ToBoolean of the language: what  if (v)  and  !v  test
Truthy(v) ==
    CASE v.t = "boolean" -> v.b
      [] v.t = "number"  -> v.n # 0
      [] v.t = "string"  -> v.s # <<>>
      [] OTHER           -> FALSE

Digits == <<"0", "1", "2", "3", "4", "5", "6", "7", "8", "9">>
IsDigit(ch) == \E d \in 1..10 : Digits[d] = ch
DigitVal(ch) == (CHOOSE d \in 1..10 : Digits[d] = ch) - 1

RECURSIVE NatToChars(_)
NatToChars(n) ==
    IF n < 10 THEN <<Digits[n + 1]>>
    ELSE NatToChars(n \div 10) \o <<Digits[(n % 10) + 1]>>

\* Number::toString for the integers of the model
NumToChars(n) == IF n < 0 THEN <<"-">> \o NatToChars(0 - n) ELSE NatToChars(n)

RECURSIVE CharsToNat(_, _)
CharsToNat(cs, acc) ==
    IF cs = <<>> THEN acc
    ELSE CharsToNat(Tail(cs), acc * 10 + DigitVal(Head(cs)))

\* the characters of a JSON integer: -? (0 | [1-9][0-9]*)
IsJSONInt(cs) ==
    LET body == IF cs # <<>> /\ Head(cs) = "-" THEN Tail(cs) ELSE cs
    IN  /\ body # <<>>
        /\ \A k \in 1..Len(body) : IsDigit(body[k])
        /\ (Len(body) > 1 => body[1] # "0")

JSONIntVal(cs) ==
    IF Head(cs) = "-" THEN 0 - CharsToNat(Tail(cs), 0) ELSE CharsToNat(cs, 0)

\* JSON.stringify's quoting of the characters of a string
RECURSIVE Escape(_)
Escape(cs) ==
    IF cs = <<>> THEN <<>>
    ELSE (IF Head(cs) \in {"\"", "\\"} THEN <<"\\", Head(cs)>> ELSE <<Head(cs)>>)
         \o Escape(Tail(cs))

\* JSON.parse's reading of the characters between the quotes of a string:
\* ok is FALSE for a bare quote or a backslash that escapes nothing
RECURSIVE Unescape(_)
Unescape(cs) ==
    IF cs = <<>> THEN [ok |-> TRUE, s |-> <<>>]
    ELSE IF Head(cs) = "\"" THEN [ok |-> FALSE, s |-> <<>>]
    ELSE IF Head(cs) = "\\" THEN
        IF Len(cs) >= 2 /\ cs[2] \in {"\"", "\\"}
        THEN LET r == Unescape(Tail(Tail(cs)))
             IN  [ok |-> r.ok, s |-> <<cs[2]>> \o r.s]
        ELSE [ok |-> FALSE, s |-> <<>>]
    ELSE LET r == Unescape(Tail(cs))
         IN  [ok |-> r.ok, s |-> <<Head(cs)>> \o r.s]

\* JSON.stringify(value): a string value holding the JSON text; undefined
\* for undefined; null for a number that is not finite
JSONstringify(v) ==
    CASE v.t = "undefined" -> Undefined
      [] v.t = "null"      -> Str(<<"n", "u", "l", "l">>)
      [] v.t = "nan"       -> Str(<<"n", "u", "l", "l">>)
      [] v.t = "boolean"   -> IF v.b THEN Str(<<"t", "r", "u", "e">>)
                                     ELSE Str(<<"f", "a", "l", "s", "e">>)
      [] v.t = "number"    -> Str(NumToChars(v.n))
      [] v.t = "string"    -> Str(<<"\"">> \o Escape(v.s) \o <<"\"">>)

\* the result of a call: threw is TRUE when it ended in an exception
Return(v) == [threw |-> FALSE, v |-> v]
Throw     == [threw |-> TRUE, v |-> Undefined]

\* JSON.parse(text) for the scalar texts; a SyntaxError for anything else
JSONparse(cs) ==
    IF cs = <<"n", "u", "l", "l">> THEN Return(Null)
    ELSE IF cs = <<"t", "r", "u", "e">> THEN Return(Bool(TRUE))
    ELSE IF cs = <<"f", "a", "l", "s", "e">> THEN Return(Bool(FALSE))
    ELSE IF IsJSONInt(cs) THEN Return(Num(JSONIntVal(cs)))
    ELSE IF Len(cs) >= 2 /\ cs[1] = "\"" /\ cs[Len(cs)] = "\"" THEN
        LET r == Unescape(SubSeq(cs, 2, Len(cs) - 1))
        IN  IF r.ok THEN Return(Str(r.s)) ELSE Throw
    ELSE Throw

\* ToString of the language, as a web storage object applies it to the
\* value assigned to one of its keys
ToStorageString(v) ==
    CASE v.t = "string"    -> v.s
      [] v.t = "undefined" -> <<"u", "n", "d", "e", "f", "i", "n", "e", "d">>
      [] v.t = "null"      -> <<"n", "u", "l", "l">>
      [] v.t = "nan"       -> <<"N", "a", "N">>
      [] v.t = "boolean"   -> IF v.b THEN <<"t", "r", "u", "e">>
                                     ELSE <<"f", "a", "l", "s", "e">>
      [] v.t = "number"    -> NumToChars(v.n)

(***************************************************************************)
(* SettingStorage.  A call runs on a context c: this, the fields of the    *)
(* instance; st, the web storage object it uses (a function from the keys  *)
(* that are present to the characters stored); w, the writes made to st so *)
(* far in the call, in order, each with the key, the characters written    *)
(* and old, what storage[key] was before.                                  *)
(***************************************************************************)
InitSettingDefault == "__initialized"

\* the fields the constructor sets before it runs its private init
NewThis ==
    [defaults |-> <<>>, prefix |-> "", initSetting |-> InitSettingDefault,
     globalInit |-> FALSE, useAccessors |-> TRUE, firstRun |-> FALSE,
     accessors |-> {}]

\* storage[key]: the stored string, undefined for a key that is absent
Lookup(st, key) == IF key \in DOMAIN st THEN Str(st[key]) ELSE Undefined

isDefined(value) == value.t # "undefined"

\* mutant of get: a falsy stored value is reported as absent
get_falsyAsAbsent(c, name) ==
    LET data == Lookup(c.st, c.this.prefix \o name)
        r    == JSONparse(data.s)
    IN  IF ~isDefined(data) THEN Return(Null)
        ELSE IF ~r.threw /\ ~Truthy(r.v) THEN Return(Null) ELSE r

\* mutant of get: a payload that does not parse reads as null
get_nullOnCorrupt(c, name) ==
    LET data == Lookup(c.st, c.this.prefix \o name)
    IN  IF ~isDefined(data) \/ JSONparse(data.s).threw THEN Return(Null)
        ELSE JSONparse(data.s)

get(c, name) ==
    LET data == Lookup(c.st, c.this.prefix \o name)
    IN  IF ~isDefined(data) THEN Return(Null) ELSE JSONparse(data.s)

\* mutant of set: a key that is present keeps what it holds
set_keepsExisting(c, name, value) ==
    LET temp == JSONstringify(value)
        key  == c.this.prefix \o name
        text == IF key \in DOMAIN c.st THEN c.st[key] ELSE ToStorageString(temp)
    IN  [c EXCEPT !.st = (key :> text) @@ c.st,
                  !.w = Append(c.w, [key |-> key, text |-> text,
                                     old |-> Lookup(c.st, key)])]

set(c, name, value) ==
    LET temp == JSONstringify(value)
        key  == c.this.prefix \o name
        text == ToStorageString(temp)
    IN  [c EXCEPT !.st = (key :> text) @@ c.st,
                  !.w = Append(c.w, [key |-> key, text |-> text,
                                     old |-> Lookup(c.st, key)])]

\* mutant of getInit: the prefix is not put back
getInit_noRestore(c) ==
    IF c.this.globalInit
    THEN LET c1 == [c EXCEPT !.this.prefix = ""]
         IN  [c |-> c1, r |-> get(c1, c1.this.initSetting)]
    ELSE [c |-> c, r |-> get(c, c.this.initSetting)]

\* on an exception of get the prefix is not put back
getInit(c) ==
    IF c.this.globalInit
    THEN LET temp == c.this.prefix
             c1   == [c EXCEPT !.this.prefix = ""]
             init == get(c1, c1.this.initSetting)
         IN  IF init.threw THEN [c |-> c1, r |-> init]
             ELSE [c |-> [c1 EXCEPT !.this.prefix = temp], r |-> init]
    ELSE [c |-> c, r |-> get(c, c.this.initSetting)]

\* mutant of setInit: globalInit is ignored
setInit_prefixed(c, value) == set(c, c.this.initSetting, value)

setInit(c, value) ==
    IF c.this.globalInit
    THEN LET temp == c.this.prefix
             c1   == [c EXCEPT !.this.prefix = ""]
             c2   == set(c1, c1.this.initSetting, value)
         IN  [c2 EXCEPT !.this.prefix = temp]
    ELSE set(c, c.this.initSetting, value)

reserved ==
    {"init", "reset", "resetAll", "fillDefaults", "get", "set", "getAll", "setAll"}

\* the accessor properties are kept as the set of their names; reading one
\* is get(name) and assigning one is set(name, x)
defineAccessors(c) ==
    LET descriptors == {c.this.defaults[k][1] : k \in 1..Len(c.this.defaults)}
                       \ reserved
    IN  [c EXCEPT !.this.accessors = descriptors]

\* the private init(defaults, options) the constructor ends with.  An
\* argument that was not passed has def = FALSE; has is the set of the
\* fields of options that are defined.
privateInit(c, defaults, options) ==
    LET c1 == IF defaults.def THEN [c EXCEPT !.this.defaults = defaults.v] ELSE c
        has(f) == options.def /\ f \in options.has
        c2 == [c1 EXCEPT
                 !.this.prefix = IF has("prefix") THEN options.prefix ELSE @,
                 !.this.initSetting =
                     IF has("initSetting") THEN options.initSetting ELSE @,
                 !.this.globalInit =
                     IF has("globalInit") THEN options.globalInit ELSE @,
                 !.this.useAccessors =
                     IF has("useAccessors") THEN options.useAccessors ELSE @]
        g  == getInit(c2)
        c3 == IF ~g.r.threw /\ ~Truthy(g.r.v)
              THEN [g.c EXCEPT !.this.firstRun = TRUE] ELSE g.c
    IN  IF g.r.threw THEN [c |-> c3, threw |-> TRUE]
        ELSE [c |-> IF c3.this.useAccessors THEN defineAccessors(c3) ELSE c3,
              threw |-> FALSE]

\* mutant of fillDefaultsFrom: a setting counts as unset when its value is
\* falsy
RECURSIVE fillDefaultsFrom_truthy(_, _)
fillDefaultsFrom_truthy(c, i) ==
    IF i > Len(c.this.defaults) THEN c
    ELSE LET d == c.this.defaults[i]
             r == get(c, d[1])
         IN  fillDefaultsFrom_truthy(
                 IF ~r.threw /\ ~Truthy(r.v) THEN set(c, d[1], d[2]) ELSE c,
                 i + 1)

\* mutant of fillDefaultsFrom: on a first run every declared setting is
\* given its default, the ones that are present too
RECURSIVE fillDefaultsFrom_firstRun(_, _)
fillDefaultsFrom_firstRun(c, i) ==
    IF i > Len(c.this.defaults) THEN c
    ELSE LET d == c.this.defaults[i]
         IN  fillDefaultsFrom_firstRun(
                 IF c.this.firstRun
                      \/ ~isDefined(Lookup(c.st, c.this.prefix \o d[1]))
                 THEN set(c, d[1], d[2]) ELSE c,
                 i + 1)

RECURSIVE fillDefaultsFrom(_, _)
fillDefaultsFrom(c, i) ==
    IF i > Len(c.this.defaults) THEN c
    ELSE LET d == c.this.defaults[i]
         IN  fillDefaultsFrom(
                 IF ~isDefined(Lookup(c.st, c.this.prefix \o d[1]))
                 THEN set(c, d[1], d[2]) ELSE c,
                 i + 1)

fillDefaults(c) == fillDefaultsFrom(c, 1)

\* mutant of init: the init flag is never written
init_skipsFlag(c) == fillDefaults(c)

\* mutant of init: writing the flag ends the first run of the instance
init_endsFirstRun(c) ==
    LET c1 == fillDefaults(c)
    IN  IF c1.this.firstRun
        THEN [setInit(c1, Bool(TRUE)) EXCEPT !.this.firstRun = FALSE]
        ELSE c1

init(c) ==
    LET c1 == fillDefaults(c)
    IN  IF c1.this.firstRun THEN setInit(c1, Bool(TRUE)) ELSE c1

\* mutant of resetFrom: a name that is not declared is left as it is
RECURSIVE resetFrom_noFallback(_, _, _)
resetFrom_noFallback(c, name, i) ==
    IF i > Len(c.this.defaults) THEN c
    ELSE IF c.this.defaults[i][1] = name THEN set(c, name, c.this.defaults[i][2])
    ELSE resetFrom_noFallback(c, name, i + 1)

RECURSIVE resetFrom(_, _, _)
resetFrom(c, name, i) ==
    IF i > Len(c.this.defaults) THEN set(c, name, Null)
    ELSE IF c.this.defaults[i][1] = name THEN set(c, name, c.this.defaults[i][2])
    ELSE resetFrom(c, name, i + 1)

reset(c, name) == resetFrom(c, name, 1)

RECURSIVE resetAllFrom(_, _)
resetAllFrom(c, i) ==
    IF i > Len(c.this.defaults) THEN c
    ELSE resetAllFrom(set(c, c.this.defaults[i][1], c.this.defaults[i][2]), i + 1)

\* mutant of resetAll: only the absent settings are written
resetAll_onlyAbsent(c) == fillDefaults(c)

resetAll(c) == resetAllFrom(c, 1)

\* the object getAll builds, as a function from its keys
NoData == [x \in {} |-> Undefined]

RECURSIVE getAllFrom(_, _, _)
getAllFrom(c, i, data) ==
    IF i > Len(c.this.defaults) THEN [threw |-> FALSE, data |-> data]
    ELSE LET name == c.this.defaults[i][1]
             r    == get(c, name)
         IN  IF r.threw THEN [threw |-> TRUE, data |-> NoData]
             ELSE getAllFrom(c, i + 1, (name :> r.v) @@ data)

getAll(c) == getAllFrom(c, 1, NoData)

\* data is the sequence of the <<name, value>> pairs of the object, in the
\* order  for (var name in data)  visits them
RECURSIVE setAllFrom(_, _, _)
setAllFrom(c, data, i) ==
    IF i > Len(data) THEN c
    ELSE setAllFrom(set(c, data[i][1], data[i][2]), data, i + 1)

setAll(c, data) == setAllFrom(c, data, 1)

(***************************************************************************)
(* The values of the language as OptionsPage uses them.                    *)
(***************************************************************************)
\* the characters of a number as a form control accepts them: -? [0-9]+
IsNumberString(cs) ==
    LET body == IF cs # <<>> /\ Head(cs) = "-" THEN Tail(cs) ELSE cs
    IN  body # <<>> /\ \A k \in 1..Len(body) : IsDigit(body[k])

\* the longest prefix of cs that is a number, for parseFloat
RECURSIVE DigitPrefix(_)
DigitPrefix(cs) ==
    IF cs # <<>> /\ IsDigit(Head(cs)) THEN <<Head(cs)>> \o DigitPrefix(Tail(cs))
    ELSE <<>>

parseFloat(cs) ==
    LET neg  == cs # <<>> /\ Head(cs) = "-"
        body == DigitPrefix(IF neg THEN Tail(cs) ELSE cs)
    IN  IF body = <<>> THEN NaN
        ELSE Num(IF neg THEN 0 - CharsToNat(body, 0) ELSE CharsToNat(body, 0))

\* ToNumber of the language
ToNumber(v) ==
    CASE v.t = "number"    -> v
      [] v.t = "boolean"   -> Num(IF v.b THEN 1 ELSE 0)
      [] v.t = "null"      -> Num(0)
      [] v.t = "string"    -> IF v.s = <<>> THEN Num(0)
                              ELSE IF IsNumberString(v.s)
                              THEN Num(JSONIntVal(v.s)) ELSE NaN
      [] OTHER             -> NaN

isNaN(v) == ToNumber(v).t = "nan"

\* a < b and a > b where one side is a number: both sides go through ToNumber
\* and a comparison with NaN is false
Less(a, b) ==
    ToNumber(a).t = "number" /\ ToNumber(b).t = "number"
    /\ ToNumber(a).n < ToNumber(b).n
Greater(a, b) == Less(b, a)

\* a == b of the language
LooseEq(a, b) ==
    IF a.t = "nan" \/ b.t = "nan" THEN FALSE
    ELSE IF a.t = b.t THEN a = b
    ELSE IF a.t \in {"null", "undefined"} \/ b.t \in {"null", "undefined"}
    THEN a.t \in {"null", "undefined"} /\ b.t \in {"null", "undefined"}
    ELSE ToNumber(a).t = "number" /\ ToNumber(a) = ToNumber(b)

(***************************************************************************)
(* The document.  dom is the sequence of the elements in document order;   *)
(* an element is known by its index.  The fields of an element:            *)
(*   tag, type, name    tagName (lower case), type and name                *)
(*   value, checked     the displayed value (characters) and checkedness   *)
(*   min, max           the characters of the attributes, <<>> if none     *)
(*   nosave             has the attribute data-nosave                      *)
(*   loadfunc, savefunc data-loadfunc and data-savefunc, "" if none        *)
(*   resets             data-resets, "" if none                            *)
(*   form               its form owner, 0 if none                          *)
(*   inDoc              is in the document                                 *)
(*   change             elementChanged is its capturing change listener    *)
(*   click              the elements its click listeners reset, in the     *)
(*                      order the listeners were added                     *)
(***************************************************************************)
Element(tag, type, name, value) ==
    [tag |-> tag, type |-> type, name |-> name, value |-> value,
     checked |-> FALSE, min |-> <<>>, max |-> <<>>, nosave |-> FALSE,
     loadfunc |-> "", savefunc |-> "", resets |-> "", form |-> 0,
     inDoc |-> TRUE, change |-> FALSE, click |-> <<>>]

\* window[func] for the names the documents use: a function, given by the
\* name of what it computes; a global that is not callable; or undefined
Window(func) ==
    CASE func = "negate"      -> [kind |-> "function", f |-> "negate"]
      [] func = "notCallable" -> [kind |-> "object", f |-> ""]
      [] OTHER                -> [kind |-> "undefined", f |-> ""]

\* the limits of a range control: min is 0 and max is 100 where the
\* attribute holds no number
rangeMin(element) ==
    IF IsNumberString(element.min) THEN JSONIntVal(element.min) ELSE 0

rangeMax(element) ==
    IF IsNumberString(element.max) THEN JSONIntVal(element.max) ELSE 100

\* what a range control shows for text that is no number: the middle of
\* its limits, on a step of 1 from min, the upper one of two; min where
\* max is below min
rangeDefault(element) ==
    IF rangeMax(element) < rangeMin(element) THEN rangeMin(element)
    ELSE rangeMin(element)
           + ((rangeMax(element) - rangeMin(element) + 1) \div 2)

\* a range control holds a number at all times, within its limits
rangeValue(element, raw) ==
    LET n == IF IsNumberString(raw) THEN JSONIntVal(raw)
             ELSE rangeDefault(element)
    IN  NumToChars(IF n < rangeMin(element) THEN rangeMin(element)
                   ELSE IF n > rangeMax(element)
                             /\ rangeMax(element) >= rangeMin(element)
                   THEN rangeMax(element)
                   ELSE n)

\* element.value = v: ToString of v, the empty string for null; a number
\* control keeps only the characters of a number, a range control turns
\* the text into a number within its limits
AssignValue(element, v) ==
    LET raw == IF v.t = "null" THEN <<>> ELSE ToStorageString(v)
    IN  [element EXCEPT !.value =
            IF element.type = "range" THEN rangeValue(element, raw)
            ELSE IF element.type = "number" /\ ~IsNumberString(raw)
            THEN <<>> ELSE raw]

valueAsNumber(element) ==
    IF element.type \in {"number", "range"} /\ IsNumberString(element.value)
    THEN Num(JSONIntVal(element.value)) ELSE NaN

\* the radio button group of element e: the radios of its name with the
\* same form owner, in or out of the document like e
RadioGroup(dom, e) ==
    {x \in 1..Len(dom) :
        /\ dom[x].tag = "input" /\ dom[x].type = "radio"
        /\ dom[x].name = dom[e].name /\ dom[x].name # ""
        /\ dom[x].form = dom[e].form /\ dom[x].inDoc = dom[e].inDoc}

\* element.checked = b: checking a radio unchecks the rest of its group
AssignChecked(dom, e, b) ==
    [x \in 1..Len(dom) |->
        IF x = e THEN [dom[x] EXCEPT !.checked = b]
        ELSE IF b /\ dom[e].type = "radio" /\ x \in RadioGroup(dom, e)
        THEN [dom[x] EXCEPT !.checked = FALSE]
        ELSE dom[x]]

\* the elements of a set of indexes, as the sequence in document order
RECURSIVE InOrder(_)
InOrder(S) ==
    IF S = {} THEN <<>>
    ELSE LET m == CHOOSE x \in S : \A y \in S : x <= y
         IN  <<m>> \o InOrder(S \ {m})

\* document.querySelectorAll(...), for matches, the elements the selector
\* matches, and document.getElementsByName(name)
querySelectorAll(dom, matches) ==
    InOrder({x \in matches : dom[x].inDoc})

getElementsByName(dom, name) ==
    querySelectorAll(dom, {x \in 1..Len(dom) : dom[x].name = name /\ name # ""})

(***************************************************************************)
(* OptionsPage.  A call runs on a context p: the fields this, st and w of  *)
(* the context of its SettingStorage (has is FALSE while storage is null), *)
(* dom, the fields initialized and formElements of the page, and threw,    *)
(* which is TRUE once an exception ended the call.                         *)
(***************************************************************************)
skip      == {"hidden", "submit", "image", "file", "reset", "button"}
numeric   == {"number", "range"}
checkable == {"checkbox", "radio"}
radio     == {"radio"}

Raise(p) == [p EXCEPT !.threw = TRUE]

isInput(element) == element.tag \in {"input", "select", "textarea"}

\* the input, select and textarea elements
Inputs(d) == {x \in 1..Len(d) : isInput(d[x])}

\* form.elements[name] is the element itself, which has no length, when one
\* element of the form has the name, and the list of them otherwise
getRadioValue(dom, e) ==
    LET name == dom[e].name
        InForm(el) == el.form = dom[e].form /\ el.name = name /\ isInput(el)
        radios == {x \in 1..Len(dom) :
                      /\ dom[x].tag = "input" /\ dom[x].type = "radio"
                      /\ dom[x].name = name}
        listed == InOrder({x \in 1..Len(dom) : InForm(dom[x])})
        inputs == IF dom[e].form # 0
                  THEN (IF Len(listed) = 1 THEN <<>> ELSE listed)
                  ELSE querySelectorAll(dom, radios)
        on     == {k \in 1..Len(inputs) : dom[inputs[k]].checked}
    IN  IF on = {} THEN Null
        ELSE Str(dom[inputs[CHOOSE k \in on : \A j \in on : k <= j]].value)

\* getAttribute gives null for an attribute that is absent, which is
\* neither undefined, a function nor a string
getTransformFunction(element, type) ==
    LET func == IF type = "loadfunc" THEN element.loadfunc ELSE element.savefunc
    IN  IF func = "" THEN [kind |-> "null", f |-> ""] ELSE Window(func)

\* if (filter) value = filter(value): undefined and null are falsy; calling
\* what is not a function is a TypeError
ApplyFilter(filter, value) ==
    CASE filter.kind \in {"null", "undefined"} -> Return(value)
      [] filter.kind = "function" -> Return(Bool(~Truthy(value)))
      [] OTHER -> Throw

\* coerceToLimits on cl = [p, value], the context and the value so far:
\* the check against min, the check against max, the check for NaN
coerceToMin(cl, e) ==
    IF cl.p.dom[e].min # <<>> /\ Less(cl.value, parseFloat(cl.p.dom[e].min))
    THEN [p |-> [cl.p EXCEPT !.dom[e] = AssignValue(@, Str(@.min))],
          value |-> Str(cl.p.dom[e].min)]
    ELSE cl

coerceToMax(cl, e) ==
    IF cl.p.dom[e].max # <<>> /\ Greater(cl.value, parseFloat(cl.p.dom[e].max))
    THEN [p |-> [cl.p EXCEPT !.dom[e] = AssignValue(@, Str(@.max))],
          value |-> Str(cl.p.dom[e].max)]
    ELSE cl

coerceNaN(cl, e) ==
    IF isNaN(cl.value)
    THEN [p |-> [cl.p EXCEPT !.dom[e] = AssignValue(@, Num(0))], value |-> Num(0)]
    ELSE cl

\* value = value || element.valueAsNumber, then the three checks
coerceToLimits(p, e, value0) ==
    coerceNaN(
        coerceToMax(
            coerceToMin([p |-> p,
                         value |-> IF Truthy(value0) THEN value0
                                   ELSE valueAsNumber(p.dom[e])], e), e), e)

\* storage.get and storage.set are a TypeError while storage is null
\* the value of the element by its type, with the context it leaves
changedValue(p, e) ==
    IF p.dom[e].type \in checkable
    THEN [p |-> p,
          value |-> IF p.dom[e].type \in radio THEN getRadioValue(p.dom, e)
                    ELSE Bool(p.dom[e].checked)]
    ELSE IF p.dom[e].type \in numeric
    THEN coerceToLimits(p, e, valueAsNumber(p.dom[e]))
    ELSE [p |-> p, value |-> Str(p.dom[e].value)]

\* storage.set(name, value) with f, the outcome of the filter
storeChanged(p, name, f) ==
    IF f.threw \/ ~p.has THEN Raise(p) ELSE set(p, name, f.v)

filterChanged(cl, e) ==
    storeChanged(cl.p, cl.p.dom[e].name,
        ApplyFilter(getTransformFunction(cl.p.dom[e], "savefunc"), cl.value))

elementChanged(p, e) == filterChanged(changedValue(p, e), e)

\* name0 and type0 are "" where the caller passes none
\* r is the outcome of storage.get(name)
loadFilter(element, r) ==
    IF r.threw THEN Throw
    ELSE ApplyFilter(getTransformFunction(element, "loadfunc"), r.v)

\* mutant of coercedOnLoad: the coerced value is displayed, not stored
coercedOnLoad_displayOnly(cl, e, value) == cl.p

\* mutant of coercedOnLoad: every load of a numeric control is stored again
coercedOnLoad_always(cl, e, value) == elementChanged(cl.p, e)

\* cl is the outcome of coerceToLimits(element)
coercedOnLoad(cl, e, value) ==
    IF ~LooseEq(cl.value, value) THEN elementChanged(cl.p, e) ELSE cl.p

\* f is the outcome of the filter
showValue(p, e, type, f) ==
    IF f.threw THEN Raise(p)
    ELSE IF type \in checkable
    THEN [p EXCEPT !.dom =
             AssignChecked(@, e, IF type \in radio
                                 THEN LooseEq(Str(p.dom[e].value), f.v)
                                 ELSE Truthy(f.v))]
    ELSE IF type \in numeric
    THEN coercedOnLoad(
             coerceToLimits([p EXCEPT !.dom[e] = AssignValue(@, f.v)],
                            e, Undefined), e, f.v)
    ELSE [p EXCEPT !.dom[e] = AssignValue(@, f.v)]

updateElement(p, e, name0, type0) ==
    showValue(p, e, IF type0 # "" THEN type0 ELSE p.dom[e].type,
        loadFilter(p.dom[e],
            IF p.has THEN get(p, IF name0 # "" THEN name0 ELSE p.dom[e].name)
            ELSE Throw))

setupElement(p, e, name0, type0) ==
    updateElement([p EXCEPT !.dom[e].change = TRUE], e, name0, type0)

\* walkElements(setupElement), from the i-th of formElements on
RECURSIVE walkElementsFrom(_, _)
walkElementsFrom(p, i) ==
    IF p.threw \/ i > Len(p.formElements) THEN p
    ELSE LET e == p.formElements[i]
             element == p.dom[e]
         IN  walkElementsFrom(
                 IF element.type \in skip \/ element.name = "" \/ element.nosave
                 THEN p ELSE setupElement(p, e, element.name, element.type),
                 i + 1)

walkElements(p) == walkElementsFrom(p, 1)

addResetButton(p, button, e) == [p EXCEPT !.dom[button].click = Append(@, e)]

\* mutant of resetClicked: the setting is reset, the element is not updated
resetClicked_noUpdate(p, e) ==
    IF ~p.has THEN Raise(p) ELSE reset(p, p.dom[e].name)

\* the listener addResetButton adds to the button, for the element e
resetClicked(p, e) ==
    IF ~p.has THEN Raise(p)
    ELSE updateElement(reset(p, p.dom[e].name), e, "", "")

\* the click listeners of a button from the k-th on
orThrew(p, threw) == [p EXCEPT !.threw = @ \/ threw]

RECURSIVE clickFrom(_, _, _)
clickFrom(p, targets, k) ==
    IF k > Len(targets) THEN p
    ELSE clickFrom(orThrew(resetClicked([p EXCEPT !.threw = FALSE], targets[k]),
                           p.threw),
                   targets, k + 1)

RECURSIVE addResetButtonsFrom(_, _, _, _)
addResetButtonsFrom(p, button, elements, j) ==
    IF j > Len(elements) THEN p
    ELSE addResetButtonsFrom(addResetButton(p, button, elements[j]),
                             button, elements, j + 1)

\* mutant of setupAllResetButtonsFrom: a trigger that names no element is
\* an error
RECURSIVE setupAllResetButtonsFrom_needsTarget(_, _, _)
setupAllResetButtonsFrom_needsTarget(p, resets, i) ==
    IF i > Len(resets) THEN p
    ELSE IF getElementsByName(p.dom, p.dom[resets[i]].resets) = <<>>
    THEN Raise(p)
    ELSE setupAllResetButtonsFrom_needsTarget(
             addResetButtonsFrom(p, resets[i],
                 getElementsByName(p.dom, p.dom[resets[i]].resets), 1),
             resets, i + 1)

RECURSIVE setupAllResetButtonsFrom(_, _, _)
setupAllResetButtonsFrom(p, resets, i) ==
    IF i > Len(resets) THEN p
    ELSE setupAllResetButtonsFrom(
             addResetButtonsFrom(p, resets[i],
                 getElementsByName(p.dom, p.dom[resets[i]].resets), 1),
             resets, i + 1)

setupAllResetButtons(p) ==
    setupAllResetButtonsFrom(p,
        querySelectorAll(p.dom, {x \in 1..Len(p.dom) : p.dom[x].resets # ""}), 1)

\* the first element with data-resets = name, 0 for null
findResetButton(dom, name) ==
    LET found == querySelectorAll(dom,
                     {x \in 1..Len(dom) : dom[x].resets = name /\ name # ""})
    IN  IF found = <<>> THEN 0 ELSE found[1]

\* p is the context walkElements(setupElement) ends with
resetButtonsSetup(p) ==
    IF p.threw THEN p ELSE [setupAllResetButtons(p) EXCEPT !.initialized = TRUE]

onDOMContentLoaded(p) ==
    resetButtonsSetup(
        walkElements([p EXCEPT !.formElements = querySelectorAll(p.dom, Inputs(p.dom))]))

\* OptionsPage.update(element) for a name
RECURSIVE updateFrom(_, _, _)
updateFrom(p, elements, i) ==
    IF p.threw \/ i > Len(elements) THEN p
    ELSE updateFrom(updateElement(p, elements[i], "", ""), elements, i + 1)

updateName(p, name) ==
    IF name = "" THEN p ELSE updateFrom(p, getElementsByName(p.dom, name), 1)

\* OptionsPage.save(element) for a name: the first element of that name;
\* reading length of null is a TypeError
firstChanged(p, elements) ==
    IF elements = <<>> THEN Raise(p) ELSE elementChanged(p, elements[1])

saveName(p, name) ==
    IF name = "" THEN p ELSE firstChanged(p, getElementsByName(p.dom, name))

\* OptionsPage.init(settingstorage): pg is the state of the page, arg the
\* context of the SettingStorage passed, with has = FALSE for none, and made
\* the outcome of  new SettingStorage()
pageInit_resets(pg, arg, made) ==
    IF ~arg.has /\ made.threw THEN pg
    ELSE [pg EXCEPT !.has = TRUE,
                    !.this = IF arg.has THEN arg.this ELSE made.c.this,
                    !.registered = TRUE, !.initialized = FALSE]

pageInit(pg, arg, made) ==
    IF ~arg.has /\ made.threw THEN pg
    ELSE [pg EXCEPT !.has = TRUE,
                    !.this = IF arg.has THEN arg.this ELSE made.c.this,
                    !.registered = TRUE]

\* addInput after setupElement(element): reset is resetbutton or the button
\* findResetButton gives, 0 for null
resetAdded(p, e, reset_) ==
    IF reset_ = 0 THEN p ELSE addResetButton(p, reset_, e)

inputAdded(p, e, resetbutton) ==
    IF p.threw THEN p
    ELSE resetAdded(p, e, IF resetbutton # 0 THEN resetbutton
                          ELSE findResetButton(p.dom, p.dom[e].name))

\* mutant of addInput: the check of initialized is missing
addInput_unguarded(p, e, resetbutton) ==
    IF isInput(p.dom[e])
    THEN inputAdded(setupElement(p, e, "", ""), e, resetbutton)
    ELSE p

\* resetbutton is 0 where the caller passes none
addInput(p, e, resetbutton) ==
    IF ~p.initialized THEN Raise(p)
    ELSE IF isInput(p.dom[e])
    THEN inputAdded(setupElement(p, e, "", ""), e, resetbutton)
    ELSE p

(***************************************************************************)
(* The state.                                                              *)
(*   backend  the web storage object shared by the script contexts         *)
(*   inst     the SettingStorage instance of each script context           *)
(*   last     the call made by the last step: its operation, instance,     *)
(*            arguments (name, arg, options), result (ret, data, threw)    *)
(*            and the writes it made to the backend                        *)
(*   calls    the number of method calls made so far                       *)
(*   page     OptionsPage: has and this, its storage (has is FALSE while   *)
(*            it is null); initialized; formElements; registered, whether  *)
(*            onDOMContentLoaded listens on the window; loaded, whether    *)
(*            DOMContentLoaded has fired; adds, the number of calls of     *)
(*            addInput that went through                                   *)
(*   dom      the elements of the options page                             *)
(***************************************************************************)
VARIABLES backend, inst, last, calls, page, dom

vars == <<backend, inst, last, calls, page, dom>>

\* the script contexts (background script, options page)
Inst == {1, 2}

\* the inputs of the calls
Names == {"checkbox", "range", InitSettingDefault}

SetValues ==
    {Bool(FALSE), Bool(TRUE), Null, Str(<<>>), Str(<<"a", "\"">>)}
    \cup {Num(n) : n \in 0..MaxNum}

NoDefaults == [def |-> FALSE, v |-> <<>>]
DefaultsChoices ==
    {NoDefaults,
     [def |-> TRUE, v |-> << <<"checkbox", Bool(FALSE)>>, <<"range", Num(0)>> >>],
     [def |-> TRUE, v |-> << <<"checkbox", Bool(TRUE)>>, <<"range", Str(<<>>)>> >>],
     [def |-> TRUE, v |-> << <<"range", Null>> >>]}

\* the <<name, value>> arguments of set
SetChoices ==
    {<<"checkbox", v>> : v \in SetValues}
    \cup {<<"range", Num(MaxNum)>>, <<InitSettingDefault, Bool(FALSE)>>,
          <<"st_checkbox", Bool(TRUE)>>}

Options(has, prefix, globalInit, useAccessors) ==
    [def |-> TRUE, has |-> has, prefix |-> prefix,
     initSetting |-> InitSettingDefault, globalInit |-> globalInit,
     useAccessors |-> useAccessors]
NoOptions == [Options({}, "", FALSE, TRUE) EXCEPT !.def = FALSE]
OptionsChoices ==
    {NoOptions,
     Options({"prefix"}, "st_", FALSE, TRUE),
     Options({"prefix", "globalInit", "useAccessors"}, "st_", TRUE, FALSE)}

SetAllChoices ==
    {<< <<"range", Str(<<>>)>>, <<"checkbox", Num(MaxNum)>> >>}

NoCall ==
    [op |-> "none", i |-> 0, e |-> 0, name |-> "", arg |-> Undefined,
     ret |-> Undefined, threw |-> FALSE, w |-> <<>>, data |-> NoData,
     options |-> NoOptions]

NoPage ==
    [has |-> FALSE, this |-> NewThis, initialized |-> FALSE,
     formElements |-> <<>>, registered |-> FALSE, loaded |-> FALSE, adds |-> 0]

Dead == [live |-> FALSE, this |-> NewThis]

Ctx(i) == [this |-> inst[i].this, st |-> backend, w |-> <<>>]

Init ==
    /\ backend = [k \in {} |-> <<>>]
    /\ inst = [i \in Inst |-> Dead]
    /\ last = NoCall
    /\ calls = 0
    /\ page = NoPage
    /\ dom = <<>>

\* new SettingStorage(defaults, options), once in each script context; the
\* contexts of one extension pass the same defaults
Construct(i, defaults, options) ==
    /\ ~inst[i].live
    /\ \A j \in Inst :
           inst[j].live => inst[j].this.defaults = defaults.v
    /\ LET r == privateInit([this |-> NewThis, st |-> backend, w |-> <<>>],
                            defaults, options)
       IN  /\ backend' = r.c.st
           /\ inst' = IF r.threw THEN inst
                      ELSE [inst EXCEPT ![i] = [live |-> TRUE, this |-> r.c.this]]
           /\ last' = [NoCall EXCEPT !.op = "construct", !.i = i,
                                     !.options = options,
                                     !.threw = r.threw, !.w = r.c.w]
    /\ UNCHANGED <<calls, page, dom>>

\* a call that writes: c is the context it ends with
Wrote(i, op, name, arg, c) ==
    /\ backend' = c.st
    /\ inst' = [inst EXCEPT ![i].this = c.this]
    /\ last' = [NoCall EXCEPT !.op = op, !.i = i, !.name = name, !.arg = arg,
                              !.w = c.w]
    /\ calls' = calls + 1
    /\ UNCHANGED <<page, dom>>

CallInit(i) ==
    /\ inst[i].live /\ calls < MaxCalls
    /\ Wrote(i, "init", "", Undefined, init(Ctx(i)))

CallFillDefaults(i) ==
    /\ inst[i].live /\ calls < MaxCalls
    /\ Wrote(i, "fillDefaults", "", Undefined, fillDefaults(Ctx(i)))

CallReset(i, name) ==
    /\ inst[i].live /\ calls < MaxCalls
    /\ Wrote(i, "reset", name, Undefined, reset(Ctx(i), name))

CallResetAll(i) ==
    /\ inst[i].live /\ calls < MaxCalls
    /\ Wrote(i, "resetAll", "", Undefined, resetAll(Ctx(i)))

\* set(name, value), also made by assigning the accessor property name
CallSet(i, name, value) ==
    /\ inst[i].live /\ calls < MaxCalls
    /\ Wrote(i, "set", name, value, set(Ctx(i), name, value))

CallSetAll(i, data) ==
    /\ inst[i].live /\ calls < MaxCalls
    /\ Wrote(i, "setAll", "", Undefined, setAll(Ctx(i), data))

\* get(name), also made by reading the accessor property name
CallGet(i, name) ==
    /\ inst[i].live /\ calls < MaxCalls
    /\ LET r == get(Ctx(i), name)
       IN  last' = [NoCall EXCEPT !.op = "get", !.i = i, !.name = name,
                                  !.ret = r.v, !.threw = r.threw]
    /\ calls' = calls + 1
    /\ UNCHANGED <<backend, inst, page, dom>>

CallGetAll(i) ==
    /\ inst[i].live /\ calls < MaxCalls
    /\ LET r == getAll(Ctx(i))
       IN  last' = [NoCall EXCEPT !.op = "getAll", !.i = i, !.data = r.data,
                                  !.threw = r.threw]
    /\ calls' = calls + 1
    /\ UNCHANGED <<backend, inst, page, dom>>

Next ==
    \/ \E i \in Inst, d \in DefaultsChoices, o \in OptionsChoices : Construct(i, d, o)
    \/ \E i \in Inst : CallInit(i)
    \/ \E i \in Inst : CallFillDefaults(i)
    \/ \E i \in Inst, name \in Names : CallReset(i, name)
    \/ \E i \in Inst : CallResetAll(i)
    \/ \E i \in Inst, a \in SetChoices : CallSet(i, a[1], a[2])
    \/ \E i \in Inst, data \in SetAllChoices : CallSetAll(i, data)
    \/ \E i \in Inst, name \in Names : CallGet(i, name)
    \/ \E i \in Inst : CallGetAll(i)

Spec == Init /\ [][Next]_vars

(***************************************************************************)
(* The options page: the documents it may hold, the calls made to          *)
(* OptionsPage and the events of the document.  The background script is   *)
(* script context 1.                                                       *)
(***************************************************************************)
\* at most MaxAdds calls of addInput go through
MaxAdds == 1

One == <<"o", "n", "e">>
Two == <<"t", "w", "o">>

Docs ==
    {<< Element("input", "text", "textbox", <<>>),
        [Element("button", "submit", "", <<>>) EXCEPT !.resets = "textbox"],
        [Element("input", "text", "textbox", <<>>) EXCEPT !.inDoc = FALSE] >>,
     << [Element("input", "checkbox", "checkbox", <<"o", "n">>)
            EXCEPT !.loadfunc = "negate", !.savefunc = "negate"],
        [Element("input", "text", "textbox", <<>>) EXCEPT !.nosave = TRUE] >>,
     << [Element("input", "range", "numeric", <<"1">>)
            EXCEPT !.min = <<"0">>, !.max = <<"1">>],
        [Element("button", "submit", "", <<>>) EXCEPT !.resets = "nothing"],
        [Element("button", "submit", "", <<>>) EXCEPT !.resets = "numeric"] >>,
     << Element("input", "hidden", "secret", <<"x">>) >>,
     << Element("input", "radio", "radio", One),
        Element("input", "radio", "radio", Two),
        [Element("button", "submit", "", <<>>) EXCEPT !.resets = "radio"] >>,
     << [Element("input", "number", "numeric", <<>>)
            EXCEPT !.min = <<"1">>, !.max = <<"2">>],
        [Element("button", "submit", "", <<>>) EXCEPT !.resets = "numeric"] >>,
     << [Element("input", "radio", "radio", One) EXCEPT !.form = 1] >>,
     << [Element("input", "text", "textbox", <<>>)
            EXCEPT !.loadfunc = "notCallable", !.savefunc = "missing"] >>,
     << [Element("input", "number", "numeric", <<>>)
            EXCEPT !.min = <<"0">>, !.max = <<"1">>,
                   !.loadfunc = "negate", !.savefunc = "negate"] >>}

PageDefaults ==
    [def |-> TRUE,
     v |-> << <<"checkbox", Bool(TRUE)>>, <<"textbox", Str(<<"a">>)>>,
              <<"numeric", Num(0)>>, <<"radio", Str(One)>> >>]

\* what the background script sets
PageSetChoices ==
    {<<"checkbox", Bool(FALSE)>>, <<"textbox", Str(<<"b">>)>>,
     <<"numeric", Num(0)>>, <<"numeric", Num(MaxNum + 1)>>,
     <<"numeric", Str(<<"b">>)>>,
     <<"radio", Str(Two)>>}

\* what a user or a script puts into a control of a type
DisplayChoices(type) ==
    IF type \in numeric THEN {<<>>, NumToChars(MaxNum + 1)} ELSE {<<"b">>}

NamesOf(d) == {d[x].name : x \in 1..Len(d)} \ {""}
Buttons(d) == {x \in 1..Len(d) : ~isInput(d[x])}

PCtx ==
    [this |-> page.this, st |-> backend, w |-> <<>>, has |-> page.has,
     dom |-> dom, initialized |-> page.initialized,
     formElements |-> page.formElements, threw |-> FALSE]

InitPage ==
    /\ backend = [k \in {} |-> <<>>]
    /\ inst = [i \in Inst |-> Dead]
    /\ last = NoCall
    /\ calls = 0
    /\ page = NoPage
    /\ dom \in Docs

\* a call or an event of the page: p is the context it ends with, and
\* counted tells whether the call counts as one of addInput
Did(op, e, name, p, counted) ==
    /\ backend' = p.st
    /\ dom' = p.dom
    /\ page' = [page EXCEPT !.initialized = p.initialized,
                            !.formElements = p.formElements,
                            !.loaded = @ \/ op = "DOMContentLoaded",
                            !.adds = IF counted /\ ~p.threw THEN @ + 1 ELSE @]
    /\ last' = [NoCall EXCEPT !.op = op, !.e = e, !.name = name,
                              !.threw = p.threw, !.w = p.w]
    /\ UNCHANGED <<inst, calls>>

\* OptionsPage.init(settingstorage), with the instance of script context i
\* or, for i = 0, without an argument
OptionsPageInit(i) ==
    /\ i # 0 => inst[i].live
    /\ LET arg  == IF i = 0 THEN [has |-> FALSE, this |-> NewThis]
                   ELSE [has |-> TRUE, this |-> inst[i].this]
           made == privateInit([this |-> NewThis, st |-> backend, w |-> <<>>],
                               NoDefaults, NoOptions)
       IN  /\ page' = pageInit(page, arg, made)
           /\ last' = [NoCall EXCEPT !.op = "OptionsPage.init", !.i = i,
                                     !.threw = ~arg.has /\ made.threw]
    /\ UNCHANGED <<backend, inst, calls, dom>>

\* the document fires DOMContentLoaded, once
DOMContentLoaded ==
    /\ ~page.loaded
    /\ Did("DOMContentLoaded", 0, "",
           IF page.registered THEN onDOMContentLoaded(PCtx) ELSE PCtx, FALSE)

\* OptionsPage.update(element) for an element and for a name
Update(e) == Did("update", e, "", updateElement(PCtx, e, "", ""), FALSE)

UpdateName(name) == Did("update", 0, name, updateName(PCtx, name), FALSE)

\* OptionsPage.save(element) for an element and for a name
Save(e) == Did("save", e, "", elementChanged(PCtx, e), FALSE)

SaveName(name) == Did("save", 0, name, saveName(PCtx, name), FALSE)

\* OptionsPage.addInput(element, resetbutton)
AddInput(e, resetbutton) ==
    /\ page.adds < MaxAdds
    /\ Did("addInput", e, "", addInput(PCtx, e, resetbutton), TRUE)

\* a change event at element e; an exception of a listener ends the listener
Change(e) ==
    Did("change", e, "",
        IF dom[e].change THEN elementChanged(PCtx, e) ELSE PCtx, FALSE)

\* a click on element e: its click listeners run in the order they were
\* added, each whether or not one before it threw; threw tells whether one
\* did
Click(e) == Did("click", e, "", clickFrom(PCtx, dom[e].click, 1), FALSE)

\* a user or a script changes what a control displays, without an event
Display(e, cs) ==
    /\ dom' = IF dom[e].type = "checkbox"
              THEN AssignChecked(dom, e, ~dom[e].checked)
              ELSE IF dom[e].type = "radio" THEN AssignChecked(dom, e, TRUE)
              ELSE [dom EXCEPT ![e] = AssignValue(@, Str(cs))]
    /\ dom' # dom
    /\ last' = [NoCall EXCEPT !.op = "display", !.e = e]
    /\ UNCHANGED <<backend, inst, calls, page>>

\* a script puts an element it made into the document
AppendElement(e) ==
    /\ ~dom[e].inDoc
    /\ dom' = [dom EXCEPT ![e].inDoc = TRUE]
    /\ last' = [NoCall EXCEPT !.op = "append", !.e = e]
    /\ UNCHANGED <<backend, inst, calls, page>>

NextPage ==
    \/ Construct(1, PageDefaults, NoOptions)
    \/ CallInit(1)
    \/ \E a \in PageSetChoices : a[1] \in NamesOf(dom) /\ CallSet(1, a[1], a[2])
    \/ \E i \in {0, 1} : OptionsPageInit(i)
    \/ DOMContentLoaded
    \/ \E e \in Inputs(dom) : Update(e)
    \/ \E name \in NamesOf(dom) : UpdateName(name)
    \/ \E e \in Inputs(dom) : Save(e)
    \/ \E name \in NamesOf(dom) \cup {"nothing"} : SaveName(name)
    \/ \E e \in 1..Len(dom), b \in {0} \cup Buttons(dom) : AddInput(e, b)
    \/ \E e \in Inputs(dom) : Change(e)
    \/ \E e \in Buttons(dom) : Click(e)
    \/ \E e \in Inputs(dom) : \E cs \in DisplayChoices(dom[e].type) : Display(e, cs)
    \/ \E e \in 1..Len(dom) : AppendElement(e)

SpecPage == InitPage /\ [][NextPage]_vars

(***************************************************************************)
(* SettingStorage over a backend that holds payloads SettingStorage.set   *)
(* did not write: what a script assigned to the storage object directly,  *)
(* or what set(name, undefined) left there.                                *)
(***************************************************************************)
\* payloads JSON.parse rejects: a bare word, the empty string, a string
\* without its closing quote, and the text of undefined
Corrupt ==
    {<<"o", "o", "p", "s">>, <<>>, <<"\"", "a">>,
     <<"u", "n", "d", "e", "f", "i", "n", "e", "d">>}

StoredKeys == {"checkbox", InitSettingDefault}

\* the backends: each key absent, or holding true or a corrupt payload
StoredChoices ==
    UNION {[K -> Corrupt \cup {<<"t", "r", "u", "e">>}] : K \in SUBSET StoredKeys}

InitStored ==
    /\ backend \in StoredChoices
    /\ inst = [i \in Inst |-> Dead]
    /\ last = NoCall
    /\ calls = 0
    /\ page = NoPage
    /\ dom = <<>>

NextStored ==
    \/ \E d \in {NoDefaults, PageDefaults} : Construct(1, d, NoOptions)
    \/ \E name \in StoredKeys : CallGet(1, name)
    \/ CallGetAll(1)
    \/ \E name \in StoredKeys : CallReset(1, name)
    \/ CallFillDefaults(1)

SpecStored == InitStored /\ [][NextStored]_vars

(***************************************************************************)
(* Properties of SettingStorage.                                           *)
(***************************************************************************)
\* the context of instance i in the state a step leads to
CtxAfter(i) == [this |-> inst'[i].this, st |-> backend', w |-> <<>>]

EmptyStore == [k \in {} |-> <<>>]
TrueText == <<"t", "r", "u", "e">>

\* the key of the init flag of an instance
FlagKey(this) ==
    IF this.globalInit THEN this.initSetting ELSE this.prefix \o this.initSetting

DeclaredNames(this) == {this.defaults[k][1] : k \in 1..Len(this.defaults)}
DeclaredKeys(this) == {this.prefix \o n : n \in DeclaredNames(this)}
\* the declared default of a declared name (names are declared once)
DefaultOf(this, name) ==
    this.defaults[CHOOSE k \in 1..Len(this.defaults) : this.defaults[k][1] = name][2]

SameStore(a, b) ==
    /\ a.prefix = b.prefix
    /\ a.initSetting = b.initSetting
    /\ a.globalInit = b.globalInit

\* C1: init() on an empty backend leaves every declared setting reading its
\* declared default, on an instance whose firstRun is true; and an instance
\* constructed on the same store right after the init() of a first-run
\* instance has firstRun false.
C1_InitOnEmptyBackend ==
    [][ /\ (last'.op = "init" /\ backend = EmptyStore)
           => /\ inst'[last'.i].this.firstRun
              /\ \A n \in DeclaredNames(inst'[last'.i].this) :
                    get(CtxAfter(last'.i), n)
                        = Return(DefaultOf(inst'[last'.i].this, n))
        /\ (/\ last.op = "init" /\ inst[last.i].this.firstRun
            /\ last'.op = "construct" /\ ~last'.threw
            /\ SameStore(inst[last.i].this, inst'[last'.i].this))
           => ~inst'[last'.i].this.firstRun ]_vars

\* C1 witness: one call was made, the init() of instance 1 (only
\* init writes the flag), it filled both declared settings, and instance 2
\* was then constructed on the same store and is not a first run
C1_Witness ==
    /\ last.op = "construct" /\ last.i = 2 /\ calls = 1
    /\ inst[1].live /\ inst[1].this.firstRun /\ ~inst[2].this.firstRun
    /\ SameStore(inst[1].this, inst[2].this)
    /\ Len(inst[1].this.defaults) = 2
    /\ DOMAIN backend = DeclaredKeys(inst[1].this) \cup {FlagKey(inst[1].this)}
    /\ \A n \in DeclaredNames(inst[1].this) :
          get(Ctx(1), n) = Return(DefaultOf(inst[1].this, n))

\* C2: after set(name, v), get(name) on the same instance returns v, for
\* every value of SetValues, the falsy ones included.
C2_SetGetRoundTrip ==
    last.op = "set" => get(Ctx(last.i), last.name) = Return(last.arg)

\* C2 witness: the empty string was set and reads back
C2_Witness ==
    /\ last.op = "set" /\ last.arg = Str(<<>>)
    /\ get(Ctx(last.i), last.name) = Return(Str(<<>>))

\* C3: after resetAll(), getAll() returns the mapping from exactly the
\* declared names to their declared defaults.
C3_ResetAllGetAll ==
    last.op = "resetAll" =>
        LET this == inst[last.i].this
        IN  getAll(Ctx(last.i))
              = [threw |-> FALSE,
                 data |-> [n \in DeclaredNames(this) |-> DefaultOf(this, n)]]

\* C3 witness: resetAll() replaced a value that was not the default
C3_Witness ==
    /\ last.op = "resetAll" /\ Len(last.w) = 2
    /\ \E k \in 1..2 : isDefined(last.w[k].old) /\ last.w[k].old.s # last.w[k].text

\* the effect of fillDefaults on the keys of the declared settings: the
\* absent ones read their default afterwards, the present ones are unchanged
FilledOnlyAbsent(i) ==
    LET this == inst[i].this
    IN  /\ \A k \in DOMAIN backend \ {FlagKey(this)} :
              k \in DOMAIN backend' /\ backend'[k] = backend[k]
        /\ DOMAIN backend' \ {FlagKey(this)}
              = (DOMAIN backend \cup DeclaredKeys(this)) \ {FlagKey(this)}
        /\ \A n \in DeclaredNames(this) :
              this.prefix \o n \notin DOMAIN backend
              => get(CtxAfter(i), n) = Return(DefaultOf(this, n))

\* C4: fillDefaults(), and init() through it, writes the declared default of
\* exactly the declared settings whose key is absent and leaves every key
\* that is present as it was, whatever is stored there; fillDefaults()
\* leaves the init flag alone too.
C4_FillDefaultsOnlyAbsent ==
    [][ /\ last'.op \in {"fillDefaults", "init"} => FilledOnlyAbsent(last'.i)
        /\ last'.op = "fillDefaults"
           => Lookup(backend', FlagKey(inst[last'.i].this))
                = Lookup(backend, FlagKey(inst[last'.i].this)) ]_vars

\* C4 witness: fillDefaults() filled one declared setting and left the
\* other, which holds false while its default is true
C4_Witness ==
    /\ last.op = "fillDefaults" /\ Len(last.w) = 1
    /\ "checkbox" \in DeclaredNames(inst[last.i].this)
    /\ DefaultOf(inst[last.i].this, "checkbox") = Bool(TRUE)
    /\ get(Ctx(last.i), "checkbox") = Return(Bool(FALSE))

\* C5: after reset(name), get(name) returns the declared default of name,
\* or null when name is not declared; no other key changes.
C5_ResetToDefaultOrNull ==
    [][ last'.op = "reset" =>
        LET i    == last'.i
            this == inst[i].this
            key  == this.prefix \o last'.name
        IN  /\ get(CtxAfter(i), last'.name)
                 = Return(IF last'.name \in DeclaredNames(this)
                          THEN DefaultOf(this, last'.name) ELSE Null)
            /\ DOMAIN backend' = DOMAIN backend \cup {key}
            /\ \A k \in DOMAIN backend \ {key} : backend'[k] = backend[k] ]_vars

\* C5 witness: a name with no declared default held true and reads null
\* after reset
C5_Witness ==
    /\ last.op = "reset" /\ last.name = "checkbox"
    /\ "checkbox" \notin DeclaredNames(inst[last.i].this)
    /\ last.w[1].old = Str(TrueText)
    /\ get(Ctx(last.i), "checkbox") = Return(Null)

\* C6: firstRun of an instance is true exactly when the key of the init
\* flag was absent from the backend when the instance was constructed.
C6_FirstRunIffFlagAbsent ==
    [][ (last'.op = "construct" /\ ~last'.threw) =>
        (inst'[last'.i].this.firstRun
           <=> FlagKey(inst'[last'.i].this) \notin DOMAIN backend) ]_vars

\* C7: constructing an instance writes nothing to the backend, and the
\* prefix of the instance is the configured one when the constructor returns.
C7_ConstructWritesNothing ==
    [][ last'.op = "construct" =>
        /\ backend' = backend
        /\ last'.w = <<>>
        /\ ~last'.threw =>
              /\ inst'[last'.i].live
              /\ inst'[last'.i].this.prefix
                    = IF last'.options.def /\ "prefix" \in last'.options.has
                      THEN last'.options.prefix ELSE "" ]_vars

\* C7 witness: an instance was constructed with a prefix and globalInit on
\* a backend that holds settings and the init flag
C7_Witness ==
    /\ last.op = "construct" /\ ~last.threw
    /\ inst[last.i].this.globalInit /\ inst[last.i].this.prefix = "st_"
    /\ InitSettingDefault \in DOMAIN backend
    /\ Cardinality(DOMAIN backend) >= 2

\* C8: init() writes the init flag, with the value true, exactly when
\* firstRun is true; it writes it to prefix + initSetting, or to initSetting
\* alone under globalInit; every other key it writes is prefix + a declared
\* name.
C8_InitWritesFlagIffFirstRun ==
    [][ last'.op = "init" =>
        LET this == inst[last'.i].this
            w    == last'.w
            flag == {k \in 1..Len(w) : w[k].key = FlagKey(this)}
        IN  /\ this.firstRun <=> flag # {}
            /\ \A k \in flag : w[k].text = TrueText
            /\ this.firstRun => backend'[FlagKey(this)] = TrueText
            /\ ~this.firstRun => Lookup(backend', FlagKey(this))
                                   = Lookup(backend, FlagKey(this))
            /\ \A k \in 1..Len(w) :
                  k \notin flag => w[k].key \in DeclaredKeys(this)
            /\ \A k \in DOMAIN backend' :
                  (k \notin DOMAIN backend \/ backend'[k] # backend[k])
                  => \E j \in 1..Len(w) : w[j].key = k ]_vars

\* C8 witness: a first-run instance with a prefix and globalInit wrote two
\* prefixed settings and then the flag, without the prefix
C8_Witness ==
    /\ last.op = "init" /\ Len(last.w) = 3
    /\ inst[last.i].this.firstRun /\ inst[last.i].this.globalInit
    /\ last.w[1].key = "st_checkbox" /\ last.w[2].key = "st_range"
    /\ last.w[3].key = InitSettingDefault /\ last.w[3].text = TrueText

\* the states of the binder
Uninitialized == ~page.registered /\ ~page.initialized
Initializing  == page.registered /\ ~page.initialized
Ready         == page.initialized

\* C9: a call of addInput made while the binder is not ready, before init or
\* after init and before the DOMContentLoaded callback has run, throws, and
\* it attaches no listener, changes the value of no element and leaves the
\* backend as it was
C9_AddInputBeforeReady ==
    [][(last'.op = "addInput" /\ ~Ready)
           => /\ last'.threw
              /\ dom' = dom
              /\ backend' = backend]_vars

\* C9 witness: addInput threw after init and before the callback, on a page
\* with an input it could have bound
C9_Witness ==
    /\ last.op = "addInput" /\ last.threw
    /\ Initializing
    /\ isInput(dom[last.e]) /\ ~dom[last.e].change

\* the elements of the document walkElements hands to its callback
Eligible(d) ==
    {x \in 1..Len(d) :
        /\ d[x].inDoc /\ isInput(d[x])
        /\ d[x].name # "" /\ d[x].type \notin skip /\ ~d[x].nosave}

\* the elements of the document that carry data-resets
Triggers(d) == {b \in 1..Len(d) : d[b].inDoc /\ d[b].resets # ""}

\* every eligible control has its change listener and every reset trigger a
\* click listener for each element of the document with the name it resets
AllBound(d) ==
    /\ \A x \in Eligible(d) : d[x].change
    /\ \A b \in Triggers(d) :
           \A x \in 1..Len(d) :
               (d[x].inDoc /\ d[x].name = d[b].resets)
                   => \E k \in 1..Len(d[b].click) : d[b].click[k] = x

\* C10: the state of the binder only moves forward, from uninitialized to
\* initializing to ready; it becomes ready only in the DOMContentLoaded
\* callback that init registered, with every eligible control and every reset
\* trigger bound, and once ready it stays ready under every later operation
C10_BinderMovesForward ==
    [][/\ (Ready => Ready')
       /\ (Initializing => ~Uninitialized')
       /\ ((Uninitialized /\ ~Uninitialized') => Initializing')
       /\ ((~Ready /\ Ready')
              => /\ Initializing
                 /\ last'.op = "DOMContentLoaded" /\ ~last'.threw
                 /\ AllBound(dom'))]_vars

\* C10 witness: the callback made the binder ready with a control and a reset
\* trigger bound, and init, called again, left it ready
C10_Witness ==
    /\ Ready /\ last.op = "OptionsPage.init"
    /\ \E x \in Eligible(dom) : dom[x].change
    /\ \E b \in Triggers(dom) : dom[b].click # <<>>

\* the binding rule for one element
IsEligible(el) ==
    isInput(el) /\ el.name # "" /\ el.type \notin skip /\ ~el.nosave

\* C11: an input, select or textarea element is bound (setupElement attaches
\* its change listener and populates it from storage) if and only if it has a
\* non-empty name, a type outside the skip set and no data-nosave; this holds
\* for the elements the scan at DOMContentLoaded finds and for the element
\* passed to addInput.
C11_BoundIffEligible ==
    [][/\ (last'.op = "DOMContentLoaded" /\ ~Ready /\ Ready')
              => \A x \in Inputs(dom) :
                     dom[x].inDoc => (dom'[x].change <=> IsEligible(dom[x]))
       /\ (last'.op = "addInput" /\ ~last'.threw /\ isInput(dom[last'.e]))
              => (dom'[last'.e].change <=> IsEligible(dom[last'.e]))]_vars

\* storage.get(name) of the page on the backend st
PageGet(st, name) == get([this |-> page.this, st |-> st, w |-> <<>>], name)

\* a bound control of a numeric type with min and max and no transform
BoundedNumeric(el) ==
    /\ el.type \in numeric /\ el.change
    /\ el.min # <<>> /\ el.max # <<>>
    /\ el.loadfunc = "" /\ el.savefunc = ""

\* the bound of el nearest to the number n outside [min,max]
NearestBound(el, n) ==
    IF n < JSONIntVal(el.min) THEN JSONIntVal(el.min) ELSE JSONIntVal(el.max)

Outside(el, v) ==
    /\ v.t = "number"
    /\ (v.n < JSONIntVal(el.min) \/ v.n > JSONIntVal(el.max))

\* C12: update of a bound numeric element with min and max whose setting
\* holds a number outside [min,max] displays the nearest bound and stores it:
\* storage.get(name) afterwards is the displayed number and lies in [min,max].
C12_UpdateCoercesAndPersists ==
    [][\A e \in Inputs(dom) :
         (/\ last'.op = "update"
          /\ (last'.e = e \/ (last'.e = 0 /\ last'.name = dom[e].name /\ dom[e].inDoc))
          /\ page.has /\ BoundedNumeric(dom[e])
          /\ ~PageGet(backend, dom[e].name).threw
          /\ Outside(dom[e], PageGet(backend, dom[e].name).v))
         => LET b == NearestBound(dom[e], PageGet(backend, dom[e].name).v.n)
            IN  /\ ~last'.threw
                /\ dom'[e].value = NumToChars(b)
                /\ PageGet(backend', dom[e].name) = Return(Num(b))
                /\ valueAsNumber(dom'[e]) = Num(b)]_vars

\* C12 witness: update found a number above max in the setting of a bound
\* numeric element, displayed max and wrote max over it
C12_Witness ==
    /\ last.op = "update" /\ last.e # 0 /\ ~last.threw
    /\ BoundedNumeric(dom[last.e])
    /\ Len(last.w) = 1
    /\ last.w[1].old.t = "string" /\ IsJSONInt(last.w[1].old.s)
    /\ JSONIntVal(last.w[1].old.s) > JSONIntVal(dom[last.e].max)
    /\ dom[last.e].value = dom[last.e].max
    /\ last.w[1].text = dom[last.e].max

\* the value of the checked radio button of the group of e, null if none
\* is checked
CheckedValue(d, e) ==
    IF \E x \in RadioGroup(d, e) : d[x].checked
    THEN Str(d[CHOOSE x \in RadioGroup(d, e) : d[x].checked].value)
    ELSE Null

\* C13: after a change event on a radio button of a bound group named N, with
\* no save transform, storage.get(N) is the value of the radio of the group
\* that is checked, and null if none is checked.
C13_RadioChangeStoresChecked ==
    [][\A e \in Inputs(dom) :
         (/\ last'.op = "change" /\ last'.e = e
          /\ dom[e].type \in radio /\ dom[e].change /\ dom[e].savefunc = ""
          /\ page.has)
         => PageGet(backend', dom[e].name) = Return(CheckedValue(dom, e))]_vars

\* the element el displays the value v the way updateElement leaves it
Displays(el, v) ==
    IF el.type \in radio THEN el.checked = LooseEq(Str(el.value), v)
    ELSE IF el.type \in checkable THEN el.checked = Truthy(v)
    ELSE el.value = AssignValue(el, v).value

\* the default v is a number within the limits el declares
FitsLimits(el, v) ==
    /\ v.t = "number"
    /\ (el.min # <<>> => v.n >= JSONIntVal(el.min))
    /\ (el.max # <<>> => v.n <= JSONIntVal(el.max))

\* a click on the reset trigger b of a ready binder whose storage declares a
\* default for the name b resets
ResetActivated(b) ==
    /\ last'.op = "click" /\ last'.e = b
    /\ Ready /\ page.has
    /\ dom[b].resets \in DeclaredNames(page.this)

\* storage holds the default of name and the bound elements of that name
\* display it
DefaultRestored(name) ==
    /\ ~last'.threw
    /\ PageGet(backend', name) = Return(DefaultOf(page.this, name))
    /\ \A x \in 1..Len(dom) :
           (dom[x].name = name /\ dom[x].change)
               => Displays(dom'[x], DefaultOf(page.this, name))

Written ==
    IF last.op = "set" THEN last.arg
    ELSE IF last.name \in DeclaredNames(inst[last.i].this)
    THEN DefaultOf(inst[last.i].this, last.name)
    ELSE Null

\* C15: of the set and reset calls that instances sharing backend and prefix
\* make in any order, the last one wins: after each of them get(name) on
\* every such instance returns the value that call wrote.
C15_LastWriteWins ==
    last.op \in {"set", "reset"}
        => \A j \in Inst :
               (inst[j].live /\ inst[j].this.prefix = inst[last.i].this.prefix)
                   => get(Ctx(j), last.name) = Return(Written)

\* C15 witness: with two instances on one prefix, the second call on the
\* backend is a set that replaced another payload of the same key, and the
\* other instance reads the new value
C15_Witness ==
    /\ last.op = "set" /\ calls = 2
    /\ \E j \in Inst \ {last.i} :
           /\ inst[j].live /\ inst[j].this.prefix = inst[last.i].this.prefix
           /\ get(Ctx(j), last.name) = Return(last.arg)
    /\ last.w[1].old.t = "string" /\ last.w[1].old.s # last.w[1].text

\* the calls that write
Writers == {"set", "reset", "resetAll", "setAll", "fillDefaults", "init"}

\* C16: instances that share a backend and differ in prefix are separate
\* stores: no set, reset, resetAll, setAll, fillDefaults or init on one of
\* them changes what get(name) returns on the other, for any name.
C16_PrefixesSeparateStores ==
    [][last'.op \in Writers
         => \A j \in Inst \ {last'.i} :
                (inst[j].live
                   /\ inst[j].this.prefix # inst[last'.i].this.prefix)
                    => \A name \in Names :
                           get(CtxAfter(j), name) = get(Ctx(j), name)]_vars

\* the attribute func names something that is not callable
NotCallable(func) == func # "" /\ Window(func).kind # "function"

\* C17: when data-loadfunc or data-savefunc of an element names something
\* that is not callable, an undefined global or a global that is no function,
\* update and save of the element do what they do for the element without
\* the attribute, and raise no error.
C17_UncallableTransformIsNoOp ==
    [][\A e \in Inputs(dom) :
         /\ (last'.op = "update" /\ last'.e = e /\ page.has
                /\ NotCallable(dom[e].loadfunc))
              => LET q == updateElement([PCtx EXCEPT !.dom[e].loadfunc = ""],
                                        e, "", "")
                 IN  /\ last'.threw = q.threw
                     /\ dom'[e].value = q.dom[e].value
                     /\ dom'[e].checked = q.dom[e].checked
                     /\ backend' = q.st
         /\ (last'.op = "save" /\ last'.e = e /\ page.has
                /\ NotCallable(dom[e].savefunc))
              => LET q == elementChanged([PCtx EXCEPT !.dom[e].savefunc = ""], e)
                 IN  /\ last'.threw = q.threw
                     /\ dom'[e].value = q.dom[e].value
                     /\ backend' = q.st]_vars

\* the reset triggers of the document whose data-resets names no element of
\* the document
Inert(d) ==
    {b \in Triggers(d) :
        \A x \in 1..Len(d) : d[x].inDoc => d[x].name # d[b].resets}

\* C18: a reset trigger whose data-resets names no element when the binder
\* binds is bound to no element and binding raises no error; activating it
\* afterwards changes neither the backend nor what any element displays.
C18_InertTrigger ==
    [][/\ (/\ last'.op = "DOMContentLoaded" /\ Initializing
           /\ Inert(dom) # {}
           /\ \A x \in Inputs(dom) : ~NotCallable(dom[x].loadfunc))
              => /\ ~last'.threw /\ Ready'
                 /\ \A b \in Inert(dom) : dom'[b].click = <<>>
       /\ \A b \in Inert(dom) :
              (last'.op = "click" /\ last'.e = b /\ dom[b].click = <<>>)
                  => /\ ~last'.threw
                     /\ backend' = backend
                     /\ dom' = dom]_vars

\* C18 witness: the binder is ready, the trigger that resets "nothing" has
\* no listener and was clicked
C18_Witness ==
    /\ last.op = "click" /\ ~last.threw /\ Ready
    /\ last.e \in Inert(dom)
    /\ dom[last.e].resets = "nothing" /\ dom[last.e].click = <<>>
    /\ backend # EmptyStore

\* C19: when the payload at prefix+name does not parse, get(name) ends in
\* an error that reaches its caller, it returns neither null nor a default,
\* and the backend is as it was.
C19_CorruptPayloadThrows ==
    [][(/\ last'.op = "get"
        /\ inst[last'.i].this.prefix \o last'.name \in DOMAIN backend
        /\ backend[inst[last'.i].this.prefix \o last'.name] \in Corrupt)
         => /\ last'.threw
            /\ last'.ret = Undefined
            /\ backend' = backend]_vars

\* C19 witness: get threw on a key that holds a bare word, on an instance
\* that declares a default for the name
C19_Witness ==
    /\ last.op = "get" /\ last.threw /\ last.name = "checkbox"
    /\ "checkbox" \in DeclaredNames(inst[last.i].this)
    /\ "checkbox" \in DOMAIN backend
    /\ backend["checkbox"] = <<"o", "o", "p", "s">>

\* the value v, as a number, lies within min and max of el
WithinLimits(el, v) ==
    /\ ToNumber(v).t = "number"
    /\ ToNumber(v).n >= JSONIntVal(el.min)
    /\ ToNumber(v).n <= JSONIntVal(el.max)

\* C20: whenever elementChanged runs for a number or range element with min
\* and max (a change event of a bound element, or save), the value it stores
\* lies in [min,max], and when the element displays no number it stores 0;
\* for every displayed value and every pair of limits, also limits that
\* exclude 0.
C20_PersistedWithinLimits ==
    [][\A e \in Inputs(dom) :
         (/\ last'.e = e
          /\ (last'.op = "save" \/ (last'.op = "change" /\ dom[e].change))
          /\ page.has
          /\ dom[e].type \in numeric /\ dom[e].savefunc = ""
          /\ dom[e].min # <<>> /\ dom[e].max # <<>>)
         => /\ ~last'.threw
            /\ ~PageGet(backend', dom[e].name).threw
            /\ WithinLimits(dom[e], PageGet(backend', dom[e].name).v)
            /\ (valueAsNumber(dom[e]) = NaN
                  => PageGet(backend', dom[e].name) = Return(Num(0)))]_vars

\* the elements update works on in the call or event c
Targets(c) ==
    IF c.e # 0 THEN {c.e}
    ELSE {x \in 1..Len(dom) : dom[x].inDoc /\ dom[x].name = c.name}

\* what updateElement loads for el: storage.get(name) through the loadfunc
Loaded(el) ==
    loadFilter(el, IF page.has THEN PageGet(backend, el.name) ELSE Throw)

\* the text of a loaded value as a control without limits would display it
LoadedText(v) == IF v.t = "null" THEN <<>> ELSE ToStorageString(v)

\* the setting of el holds a number that lies within the limits el has
StoredWithin(el) ==
    /\ page.has /\ ~PageGet(backend, el.name).threw
    /\ PageGet(backend, el.name).v.t = "number"
    /\ (el.min # <<>> => PageGet(backend, el.name).v.n >= JSONIntVal(el.min))
    /\ (el.max # <<>> => PageGet(backend, el.name).v.n <= JSONIntVal(el.max))

\* C21: update(target) writes to the backend only when the target is a
\* number or range element whose displayed value was changed by coercion;
\* for an element of every other type, and for a number or range element
\* whose setting holds a number already within its limits, update writes
\* nothing and leaves every backend key unchanged.
C21_UpdateWritesOnlyOnCoercion ==
    [][last'.op = "update" =>
         /\ last'.w # <<>> =>
               \E e \in Targets(last') :
                  /\ dom[e].type \in numeric /\ ~Loaded(dom[e]).threw
                  /\ dom'[e].value # LoadedText(Loaded(dom[e]).v)
         /\ (\A e \in Targets(last') :
                dom[e].type \notin numeric \/ StoredWithin(dom[e]))
               => (last'.w = <<>> /\ backend' = backend)]_vars

\* C21 amended: as C21, where the number or range element whose setting
\* holds a number within its limits has no loadfunc that is a function; a
\* loadfunc replaces the number before it is displayed and compared, so
\* update may coerce what the loadfunc gave and store it through the savefunc.
C21_UpdateWritesOnlyOnCoercionOfLoaded ==
    [][last'.op = "update" =>
         /\ last'.w # <<>> =>
               \E e \in Targets(last') :
                  /\ dom[e].type \in numeric /\ ~Loaded(dom[e]).threw
                  /\ dom'[e].value # LoadedText(Loaded(dom[e]).v)
         /\ (\A e \in Targets(last') :
                \/ dom[e].type \notin numeric
                \/ /\ StoredWithin(dom[e])
                   /\ getTransformFunction(dom[e], "loadfunc").kind # "function")
               => (last'.w = <<>> /\ backend' = backend)]_vars

\* C21 witness: update of a number or range element without transforms whose
\* setting holds a number within its limits displayed the number and wrote
\* nothing
C21_Witness ==
    /\ last.op = "update" /\ last.e # 0 /\ ~last.threw /\ last.w = <<>>
    /\ page.has
    /\ dom[last.e].type \in numeric /\ dom[last.e].loadfunc = ""
    /\ dom[last.e].min # <<>> /\ dom[last.e].max # <<>>
    /\ ~PageGet(backend, dom[last.e].name).threw
    /\ PageGet(backend, dom[last.e].name).v.t = "number"
    /\ WithinLimits(dom[last.e], PageGet(backend, dom[last.e].name).v)
    /\ dom[last.e].value = NumToChars(PageGet(backend, dom[last.e].name).v.n)

\* C22: firstRun of an instance never changes after construction: every
\* later call on the instance or on the backend it shares leaves it as it
\* was, the init() of the instance that writes the init flag included.
C22_FirstRunFixedAtConstruction ==
    [][\A i \in Inst :
         inst[i].live
           => /\ inst'[i].live
              /\ inst'[i].this.firstRun = inst[i].this.firstRun]_vars

\* C22 witness: the second call on the backend is an init() of an instance
\* whose firstRun is still true although the flag was there already, written
\* by the init() before it; it wrote the flag over the flag
C22_Witness ==
    /\ last.op = "init" /\ calls = 2 /\ Len(last.w) > 0
    /\ inst[last.i].this.firstRun
    /\ last.w[Len(last.w)].key = FlagKey(inst[last.i].this)
    /\ last.w[Len(last.w)].old = Str(TrueText)
    /\ last.w[Len(last.w)].text = TrueText
    /\ get(Ctx(last.i), inst[last.i].this.initSetting) = Return(Bool(TRUE))

\* the calls that may change a declared setting that is present
Setters == {"set", "setAll", "reset", "resetAll"}

\* C23: with two script contexts whose instances were constructed over the
\* same empty backend, both with firstRun true, and calls of init(),
\* fillDefaults() and set made in any order, a declared setting whose key is
\* present is changed by set, setAll, reset and resetAll only: no later
\* init() or fillDefaults() of either instance puts the default over a value
\* that set wrote.
C23_PresentSettingKeptByInit ==
    [][\A i \in Inst :
         \A k \in DeclaredKeys(inst[i].this) \cap DOMAIN backend :
            (inst[i].live /\ last'.op \notin Setters)
               => (k \in DOMAIN backend' /\ backend'[k] = backend[k])]_vars

\* C23 witness: both instances were constructed over the empty backend with
\* the same prefix, both with firstRun true; one set a declared setting to a
\* value other than its default, then the other ran init(), which filled the
\* other setting, wrote the flag and left the value that was set
C23_Witness ==
    /\ last.op = "init" /\ calls = 2
    /\ \A i \in Inst : inst[i].live /\ inst[i].this.firstRun
    /\ SameStore(inst[1].this, inst[2].this)
    /\ "checkbox" \in DeclaredNames(inst[last.i].this)
    /\ \A j \in 1..Len(last.w) :
          last.w[j].key # inst[last.i].this.prefix \o "checkbox"
    /\ \E j \in 1..Len(last.w) :
          /\ last.w[j].key = FlagKey(inst[last.i].this)
          /\ ~isDefined(last.w[j].old)
    /\ ~get(Ctx(last.i), "checkbox").threw
    /\ get(Ctx(last.i), "checkbox").v # DefaultOf(inst[last.i].this, "checkbox")

=============================================================================
